---- MODULE Spec2Model ----
(***************************************************************************)
(* build/ci/compare_benchmarks.py: the reader of `go test -bench` output,  *)
(* the aggregation of repeated runs and the old/new comparison report.     *)
(*                                                                         *)
(* Text is modelled as sequences of one-character strings, Python floats   *)
(* as IEEE-754 binary64 values (53-bit significand, round to nearest, ties *)
(* to even) held as sign * m * 2^e with m an arbitrary-length binary       *)
(* natural, and dicts as insertion-ordered key sequences plus a map.       *)
(***************************************************************************)
EXTENDS Integers, Sequences, FiniteSets, TLC

(***************************************************************************)
(* Python evaluates the right-hand side of an assignment and the arguments *)
(* of a call once, before the name is used.  With binds such a value:      *)
(* With(e, LAMBDA x : body) is body with x the value of e.                 *)
(***************************************************************************)
With(e, F(_)) == CHOOSE v \in {F(x) : x \in {e}} : TRUE

With2(e1, e2, F(_, _)) == CHOOSE v \in {F(x, y) : x \in {e1}, y \in {e2}} : TRUE

MinOf(S0) == With(S0, LAMBDA S : CHOOSE i \in S : \A j \in S : i <= j)

MaxOf(S0) == With(S0, LAMBDA S : CHOOSE i \in S : \A j \in S : i >= j)

(***************************************************************************)
(* Naturals of any size: sequences of 15-bit limbs, least significant      *)
(* first, without leading (high) zero limbs; <<>> is zero.  They carry the *)
(* significands of the binary64 arithmetic, which do not fit 32-bit        *)
(* integers.  Bit positions count from 1 at the least significant.         *)
(***************************************************************************)
LimbBits == 15

Base == 2 ^ LimbBits

BNorm(a0) ==
    With(a0, LAMBDA a :
        With({i \in 1..Len(a) : a[i] # 0}, LAMBDA nz :
            IF nz = {} THEN <<>> ELSE SubSeq(a, 1, MaxOf(nz))))

RECURSIVE BFromNat(_)
BFromNat(n) == IF n = 0 THEN <<>> ELSE <<n % Base>> \o BFromNat(n \div Base)

RECURSIVE BToNatAt(_, _)
BToNatAt(a, i) == IF i > Len(a) THEN 0 ELSE a[i] + Base * BToNatAt(a, i + 1)

BToNat(a0) == With(a0, LAMBDA a : BToNatAt(a, 1))

BLimb(a, i) == IF i >= 1 /\ i <= Len(a) THEN a[i] ELSE 0

BMaxLen(a, b) == IF Len(a) >= Len(b) THEN Len(a) ELSE Len(b)

RECURSIVE BAddC(_, _, _, _)
BAddC(a, b, i, c0) ==
    IF i > BMaxLen(a, b) THEN (IF c0 = 1 THEN <<1>> ELSE <<>>)
    ELSE With(BLimb(a, i) + BLimb(b, i) + c0, LAMBDA s :
             <<s % Base>> \o BAddC(a, b, i + 1, s \div Base))

BAdd(a0, b0) == With2(a0, b0, LAMBDA a, b : BNorm(BAddC(a, b, 1, 0)))

\* a - b for a >= b
RECURSIVE BSubC(_, _, _, _)
BSubC(a, b, i, c0) ==
    IF i > Len(a) THEN <<>>
    ELSE With(BLimb(a, i) - BLimb(b, i) - c0, LAMBDA d :
             <<IF d < 0 THEN d + Base ELSE d>>
                 \o BSubC(a, b, i + 1, IF d < 0 THEN 1 ELSE 0))

BSub(a0, b0) == With2(a0, b0, LAMBDA a, b : BNorm(BSubC(a, b, 1, 0)))

\* -1, 0, 1 as a < b, a = b, a > b (both normalised)
RECURSIVE BCmpAt(_, _, _)
BCmpAt(a, b, i) ==
    IF i = 0 THEN 0
    ELSE IF a[i] > b[i] THEN 1
    ELSE IF a[i] < b[i] THEN -1
    ELSE BCmpAt(a, b, i - 1)

BCmp(a0, b0) ==
    With2(a0, b0, LAMBDA a, b :
        IF Len(a) > Len(b) THEN 1
        ELSE IF Len(a) < Len(b) THEN -1
        ELSE BCmpAt(a, b, Len(a)))

\* a times one limb d, from limb i on with carry c
RECURSIVE BMulLimbAt(_, _, _, _)
BMulLimbAt(a, d, i, c0) ==
    IF i > Len(a) THEN (IF c0 > 0 THEN <<c0>> ELSE <<>>)
    ELSE With(a[i] * d + c0, LAMBDA p :
             <<p % Base>> \o BMulLimbAt(a, d, i + 1, p \div Base))

BMulLimb(a0, d0) == With2(a0, d0, LAMBDA a, d : BMulLimbAt(a, d, 1, 0))

RECURSIVE BMulAt(_, _, _)
BMulAt(a, b, j) ==
    IF j > Len(b) THEN <<>>
    ELSE BAdd([i \in 1..(j - 1) |-> 0] \o BMulLimb(a, b[j]), BMulAt(a, b, j + 1))

BMul(a0, b0) == With2(a0, b0, LAMBDA a, b : BMulAt(a, b, 1))

\* a * 2^k
BShl(a0, k0) ==
    With2(a0, k0, LAMBDA a, k :
        IF a = <<>> THEN <<>>
        ELSE [i \in 1..(k \div LimbBits) |-> 0] \o BMulLimb(a, 2 ^ (k % LimbBits)))

\* a \div 2^k
BShr(a0, k0) ==
    With2(a0, k0, LAMBDA a, k :
        IF k \div LimbBits >= Len(a) THEN <<>>
        ELSE With2(SubSeq(a, (k \div LimbBits) + 1, Len(a)), k % LimbBits, LAMBDA t, r :
                 BNorm([i \in 1..Len(t) |->
                     (t[i] \div (2 ^ r))
                         + (BLimb(t, i + 1) % (2 ^ r)) * (2 ^ (LimbBits - r))])))

\* the number of bits of a
BitLen(a0) ==
    With(a0, LAMBDA a :
        IF a = <<>> THEN 0
        ELSE LimbBits * (Len(a) - 1)
               + (CHOOSE n \in 1..LimbBits : 2 ^ (n - 1) <= a[Len(a)] /\ a[Len(a)] < 2 ^ n))

BBit(a0, i0) ==
    With2(a0, i0, LAMBDA a, i :
        IF i < 1 THEN 0
        ELSE (BLimb(a, ((i - 1) \div LimbBits) + 1) \div (2 ^ ((i - 1) % LimbBits))) % 2)

\* whether any of the k low bits of a is set
BLowBits(a0, k0) ==
    With2(a0, k0, LAMBDA a, k :
        \E l \in 1..Len(a) :
            \/ l <= k \div LimbBits /\ a[l] # 0
            \/ l = (k \div LimbBits) + 1 /\ a[l] % (2 ^ (k % LimbBits)) # 0)

\* the number of zero bits below the lowest set bit of a # 0
BTrailingZeros(a0) ==
    With(a0, LAMBDA a :
        With(MinOf({i \in 1..Len(a) : a[i] # 0}), LAMBDA l :
            LimbBits * (l - 1)
                + (CHOOSE n \in 0..(LimbBits - 1) :
                       a[l] % (2 ^ (n + 1)) # 0 /\ a[l] % (2 ^ n) = 0)))

\* the quotient limb q (tried from the estimate down) that fits: the new
\* state of the long division
RECURSIVE BDivFit(_, _, _, _)
BDivFit(b, q, r2, quot) ==
    With(BNorm(BMulLimb(b, q)), LAMBDA p :
        IF BCmp(p, r2) <= 0 THEN <<<<q>> \o quot, BSub(r2, p)>>
        ELSE BDivFit(b, q - 1, r2, quot))

\* one step of long division in base 2^15 by b, whose top limb has its high
\* bit set: the state <<quotient, remainder>> takes the next lower limb of
\* the numerator.  The quotient limb is estimated from the top limbs (at
\* most 2 too large) and corrected.
BDivStep(b, s0, limb) ==
    With(s0, LAMBDA s :
        With(BNorm(<<limb>> \o s[2]), LAMBDA r2 :
            With((BLimb(r2, Len(b) + 1) * Base + BLimb(r2, Len(b))) \div b[Len(b)], LAMBDA e :
                BDivFit(b, IF e > Base - 1 THEN Base - 1 ELSE e, r2, s[1]))))

\* the state after the limbs Len(a) down to i of the numerator; the top
\* Len(b) - 1 limbs are below b and start as the remainder
RECURSIVE BDivFrom(_, _, _)
BDivFrom(a, b, i) ==
    IF i > Len(a) - (Len(b) - 1) THEN <<<<>>, BNorm(SubSeq(a, i, Len(a)))>>
    ELSE BDivStep(b, BDivFrom(a, b, i + 1), a[i])

\* <<quotient, remainder>> of a by b # 0: both shifted so that the top limb
\* of the divisor is full
BDivMod(a0, b0) ==
    With2(a0, b0, LAMBDA a, b :
        With((LimbBits - (BitLen(b) % LimbBits)) % LimbBits, LAMBDA sh :
            With2(BShl(a, sh), BShl(b, sh), LAMBDA an, bn :
                With(BDivFrom(an, bn, 1), LAMBDA s :
                    <<BNorm(s[1]), BShr(s[2], sh)>>))))

(***************************************************************************)
(* Python floats (IEEE-754 binary64).  A finite value is                   *)
(* [neg, m, e] = (-1)^neg * m * 2^e with m odd, or m = <<>> for zero.      *)
(* Every operation computes the exact result and rounds it once to 53      *)
(* significant bits, ties to even, as the hardware does.  The values the   *)
(* reader meets here stay far inside the exponent range, so overflow,      *)
(* subnormals, infinities and NaN do not arise.                            *)
(***************************************************************************)
MantBits == 53

FZero == [neg |-> FALSE, m |-> <<>>, e |-> 0]

FCanon(neg, m0, e) ==
    With(m0, LAMBDA m :
        IF m = <<>> THEN FZero
        ELSE With(BTrailingZeros(m), LAMBDA z :
                 [neg |-> neg, m |-> BShr(m, z), e |-> e + z]))

\* the value m * 2^e (plus a nonzero tail below it when sticky) rounded
FRound(neg, m0, e, sticky) ==
    With(m0, LAMBDA m :
        IF BitLen(m) <= MantBits THEN FCanon(neg, m, e)
        ELSE With(BitLen(m) - MantBits, LAMBDA k :
                 With(BShr(m, k), LAMBDA top :
                     LET guard == BBit(m, k)
                         below == sticky \/ BLowBits(m, k - 1)
                         up    == guard = 1 /\ (below \/ BBit(top, 1) = 1)
                     IN  FCanon(neg, IF up THEN BAdd(top, <<1>>) ELSE top, e + k))))

FFromNat(n) == FRound(FALSE, BFromNat(n), 0, FALSE)

FIsZero(x) == x.m = <<>>

FNeg(x0) == With(x0, LAMBDA x : IF FIsZero(x) THEN x ELSE [x EXCEPT !.neg = ~x.neg])

FAbs(x) == [x EXCEPT !.neg = FALSE]

FMinE(x, y) == IF x.e <= y.e THEN x.e ELSE y.e

\* compare magnitudes: -1, 0, 1
FCmpAbs(x, y) ==
    IF FIsZero(x) THEN (IF FIsZero(y) THEN 0 ELSE -1)
    ELSE IF FIsZero(y) THEN 1
    ELSE With(FMinE(x, y), LAMBDA e :
             BCmp(BShl(x.m, x.e - e), BShl(y.m, y.e - e)))

\* x < y: -1, x = y: 0, x > y: 1
FCmp(x0, y0) ==
    With2(x0, y0, LAMBDA x, y :
        IF x.neg /\ ~y.neg THEN -1
        ELSE IF ~x.neg /\ y.neg THEN 1
        ELSE IF x.neg THEN FCmpAbs(y, x)
        ELSE FCmpAbs(x, y))

\* the exact sum, not rounded
FExactAdd(x0, y0) ==
    With2(x0, y0, LAMBDA x, y :
        IF FIsZero(x) THEN y
        ELSE IF FIsZero(y) THEN x
        ELSE With(FMinE(x, y), LAMBDA e :
                 With2(BShl(x.m, x.e - e), BShl(y.m, y.e - e), LAMBDA mx, my :
                     With(BCmp(mx, my), LAMBDA c :
                         IF x.neg = y.neg THEN [neg |-> x.neg, m |-> BAdd(mx, my), e |-> e]
                         ELSE IF c = 0 THEN FZero
                         ELSE IF c > 0 THEN [neg |-> x.neg, m |-> BSub(mx, my), e |-> e]
                         ELSE [neg |-> y.neg, m |-> BSub(my, mx), e |-> e]))))

FAdd(x, y) == With(FExactAdd(x, y), LAMBDA s : FRound(s.neg, s.m, s.e, FALSE))

FSub(x, y) == FAdd(x, FNeg(y))

FMul(x0, y0) ==
    With2(x0, y0, LAMBDA x, y :
        IF FIsZero(x) \/ FIsZero(y) THEN FZero
        ELSE FRound(x.neg # y.neg, BMul(x.m, y.m), x.e + y.e, FALSE))

\* x / y for y # 0: enough quotient bits for a guard bit, the remainder is
\* the sticky tail
FDiv(x0, y0) ==
    With2(x0, y0, LAMBDA x, y :
        IF FIsZero(x) THEN FZero
        ELSE With(MantBits + 2 + BitLen(y.m) - BitLen(x.m), LAMBDA d :
                 With(IF d > 0 THEN d ELSE 0, LAMBDA k :
                     With(BDivMod(BShl(x.m, k), y.m), LAMBDA qr :
                         FRound(x.neg # y.neg, qr[1], x.e - y.e - k, qr[2] # <<>>)))))

\* "%.2f": the exact value rounded to hundredths, ties to even, as
\* [neg, h] for the sign and h hundredths
FHundredths(x0) ==
    With(x0, LAMBDA x :
        IF FIsZero(x) THEN [neg |-> FALSE, h |-> 0]
        ELSE With(BMul(x.m, BFromNat(100)), LAMBDA n :
                 IF x.e >= 0 THEN [neg |-> x.neg, h |-> BToNat(BShl(n, x.e))]
                 ELSE With2(0 - x.e, BShr(n, 0 - x.e), LAMBDA k, int :
                          LET guard == BBit(n, k)
                              below == BLowBits(n, k - 1)
                              up    == guard = 1 /\ (below \/ BBit(int, 1) = 1)
                          IN  [neg |-> x.neg,
                               h   |-> BToNat(IF up THEN BAdd(int, <<1>>) ELSE int)])))

(***************************************************************************)
(* Text: a str is a sequence of one-character strings.                     *)
(***************************************************************************)
StartsWith(s0, p) == With(s0, LAMBDA s : Len(s) >= Len(p) /\ SubSeq(s, 1, Len(p)) = p)

\* the positions where p occurs in s
Occurrences(s0, p) ==
    With(s0, LAMBDA s :
        {i \in 1..(Len(s) - Len(p) + 1) : SubSeq(s, i, i + Len(p) - 1) = p})

Contains(s, p) == Occurrences(s, p) # {}

\* str.replace(old, new): the occurrences of old from the left, none
\* overlapping the one before it
RECURSIVE Replace(_, _, _)
Replace(s0, old, new) ==
    With(s0, LAMBDA s :
        With(Occurrences(s, old), LAMBDA occ :
            IF occ = {} THEN s
            ELSE With(MinOf(occ), LAMBDA i :
                     SubSeq(s, 1, i - 1) \o new
                         \o Replace(SubSeq(s, i + Len(old), Len(s)), old, new))))

\* str.split(sep) for a one-character sep
RECURSIVE Split(_, _)
Split(s0, sep) ==
    With(s0, LAMBDA s :
        With(Occurrences(s, <<sep>>), LAMBDA occ :
            IF occ = {} THEN <<s>>
            ELSE With(MinOf(occ), LAMBDA i :
                     <<SubSeq(s, 1, i - 1)>> \o Split(SubSeq(s, i + 1, Len(s)), sep))))

\* sep.join(parts)
RECURSIVE JoinFrom(_, _, _)
JoinFrom(parts, sep, i) ==
    IF i > Len(parts) THEN <<>>
    ELSE IF i = Len(parts) THEN parts[i]
    ELSE parts[i] \o sep \o JoinFrom(parts, sep, i + 1)

Join(parts0, sep) == With(parts0, LAMBDA parts : JoinFrom(parts, sep, 1))

Whitespace == {" ", "\t", "\n"}

\* str.strip()
Strip(s0) ==
    With(s0, LAMBDA s :
        With({i \in 1..Len(s) : s[i] \notin Whitespace}, LAMBDA ink :
            IF ink = {} THEN <<>> ELSE SubSeq(s, MinOf(ink), MaxOf(ink))))

\* re.split(r'\s+', s) for s without leading or trailing whitespace
RECURSIVE SplitWhitespace(_)
SplitWhitespace(s0) ==
    With(s0, LAMBDA s :
        With({i \in 1..Len(s) : s[i] \in Whitespace}, LAMBDA ws :
            IF ws = {} THEN <<s>>
            ELSE With2(MinOf(ws),
                       MinOf({k \in (MinOf(ws) + 1)..Len(s) : s[k] \notin Whitespace}),
                       LAMBDA i, j :
                     <<SubSeq(s, 1, i - 1)>> \o SplitWhitespace(SubSeq(s, j, Len(s))))))

Str_Benchmark == <<"B", "e", "n", "c", "h", "m", "a", "r", "k">>

Str_CI == <<"/", "C", "I", "/">>

(***************************************************************************)
(* format_benchmark_name                                                   *)
(***************************************************************************)
\* the loop with range(0, len(params_split), 2): a trailing token without a
\* value is kept, with an empty value
ParamPairs_keep_trailing(params_split0) ==
    With(params_split0, LAMBDA params_split :
        [k \in 1..((Len(params_split) + 1) \div 2) |->
            params_split[2 * k - 1] \o <<"=">>
                \o (IF 2 * k <= Len(params_split) THEN params_split[2 * k] ELSE <<>>)])

\* for i in range(0, len(params_split) - 1, 2): f"{params_split[i]}={params_split[i + 1]}"
ParamPairs(params_split0) ==
    With(params_split0, LAMBDA params_split :
        [k \in 1..(Len(params_split) \div 2) |->
            params_split[2 * k - 1] \o <<"=">> \o params_split[2 * k]])

format_benchmark_name(raw) ==
    With(Replace(Replace(raw, Str_Benchmark, <<>>), Str_CI, <<"/">>), LAMBDA name :
        With(Split(name, "/"), LAMBDA parts :
            IF Len(parts) = 1 THEN parts[1]
            ELSE With2(Join(SubSeq(parts, 1, Len(parts) - 1), <<" ">>),
                       ParamPairs(Split(parts[Len(parts)], "-")),
                       LAMBDA base_name, params :
                     IF params # <<>>
                     THEN base_name \o <<" ", "(">> \o Join(params, <<",", " ">>) \o <<")">>
                     ELSE base_name)))

(***************************************************************************)
(* Python values: None, a raised exception, a dict lookup with default.    *)
(***************************************************************************)
None == [none |-> TRUE]

Raise(kind, about) == [exc |-> kind, about |-> about]

IsRaise(v) == "exc" \in DOMAIN v

Get(d, k, default) == IF k \in DOMAIN d THEN d[k] ELSE default

(***************************************************************************)
(* float(value) for the decimal literals of the benchmark output: an       *)
(* optional sign, digits, at most one point, at least one digit.  The      *)
(* value is the literal's exact value rounded once.  Any other token over  *)
(* the characters used here (digits, ".", "-", "+", "x") is no float       *)
(* literal and raises ValueError.                                          *)
(***************************************************************************)
Digits == <<"0", "1", "2", "3", "4", "5", "6", "7", "8", "9">>

IsDigit(c) == \E d \in 1..10 : Digits[d] = c

DigitVal(c) == (CHOOSE d \in 1..10 : Digits[d] = c) - 1

RECURSIVE DecimalValTo(_, _)
DecimalValTo(ds, i) ==
    IF i = 0 THEN 0 ELSE 10 * DecimalValTo(ds, i - 1) + DigitVal(ds[i])

DecimalVal(ds0) == With(ds0, LAMBDA ds : DecimalValTo(ds, Len(ds)))

float(value0) ==
    With(value0, LAMBDA value :
        With(value # <<>> /\ value[1] \in {"-", "+"}, LAMBDA signed :
            With(IF signed THEN Tail(value) ELSE value, LAMBDA body :
                With2({i \in 1..Len(body) : body[i] = "."}, SelectSeq(body, IsDigit),
                      LAMBDA points, digits :
                    IF /\ digits # <<>>
                       /\ Cardinality(points) <= 1
                       /\ Len(digits) + Cardinality(points) = Len(body)
                    THEN With(FDiv(FFromNat(DecimalVal(digits)),
                                   FFromNat(10 ^ (IF points = {} THEN 0
                                                  ELSE Len(body) - MinOf(points)))),
                              LAMBDA mag :
                             IF signed /\ value[1] = "-" THEN FNeg(mag) ELSE mag)
                    ELSE Raise("ValueError", value)))))

(***************************************************************************)
(* METRICS, EMOJIS                                                         *)
(***************************************************************************)
Str_MB_s == <<"M", "B", "/", "s">>

Str_B_s == <<"B", "/", "s">>

Str_values_s == <<"v", "a", "l", "u", "e", "s", "/", "s">>

Str_ns_op == <<"n", "s", "/", "o", "p">>

Str_s_op == <<"s", "/", "o", "p">>

\* the table as shipped
METRICS ==
    [m \in {Str_MB_s, Str_values_s} |->
        IF m = Str_MB_s
        THEN [name |-> Str_B_s, good_direction |-> "up", scale |-> FFromNat(2 ^ 20)]
        ELSE [good_direction |-> "up"]]

\* the table with its commented-out 'ns/op' entry restored
METRICS_with_ns_op ==
    [m \in {Str_MB_s, Str_values_s, Str_ns_op} |->
        IF m = Str_ns_op
        THEN [name |-> Str_s_op, good_direction |-> "down",
              scale |-> FDiv(FFromNat(1), FFromNat(10 ^ 9))]
        ELSE METRICS[m]]

EMOJIS == [good |-> "zap", bad |-> "broken_heart"]

(***************************************************************************)
(* The program's state.                                                    *)
(***************************************************************************)
VARIABLES
    metrics,          \* the module global METRICS
    aggregation,      \* args.aggregation
    alert_threshold,  \* args.alert_threshold, None until compare_benchmarks_df reads it
    old_exists,       \* args.old_file and os.path.exists(args.old_file)
    old_file,         \* the lines parse_metrics_file has read from the old file
    new_file,         \* the lines parse_metrics_file has read from the new file
    results,          \* parse_metrics_file's dict of the file being read
    old_metrics,      \* main's old_metrics
    new_metrics,      \* main's new_metrics
    report,           \* what compare_benchmarks_df returned
    pc,               \* where main is
    exc,              \* the exception that ended the run, or None
    call,             \* the arguments of a function called on its own
    ret               \* and what it returned

vars == <<metrics, aggregation, alert_threshold, old_exists, old_file, new_file,
          results, old_metrics, new_metrics, report, pc, exc, call, ret>>

\* a dict with insertion order: the keys in order and the value of each
EmptyDict == [keys |-> <<>>, val |-> <<>>]

HasKey(d, k) == \E i \in 1..Len(d.keys) : d.keys[i] = k

DictSet(d0, k0, v0) ==
    With2(<<d0, k0>>, v0, LAMBDA dk, v :
        [keys |-> IF HasKey(dk[1], dk[2]) THEN dk[1].keys ELSE Append(dk[1].keys, dk[2]),
         val  |-> [x \in DOMAIN dk[1].val \cup {dk[2]} |->
                      IF x = dk[2] THEN v ELSE dk[1].val[x]]])

(***************************************************************************)
(* parse_bench_line                                                        *)
(***************************************************************************)
\* zip(parts[2::2], parts[3::2]): the k-th pair is <<value, metric>>
BenchPairs(parts) ==
    [k \in 1..((Len(parts) - 2) \div 2) |-> <<parts[2 * k + 1], parts[2 * k + 2]>>]

\* the pairs of a known metric, which are the ones float() is applied to
KnownPairs(parts) ==
    SelectSeq(BenchPairs(parts), LAMBDA p : p[2] \in DOMAIN metrics)

\* the loop over the pairs: the dict of the floats, the last pair of a metric
\* winning, or the ValueError of the first value that is no float
BenchMetrics(known) ==
    With([k \in 1..Len(known) |-> float(known[k][1])], LAMBDA vals :
        With({k \in 1..Len(known) : IsRaise(vals[k])}, LAMBDA failed :
            IF failed # {} THEN Raise("ValueError", known[MinOf(failed)])
            ELSE [metrics |-> [m \in {known[k][2] : k \in 1..Len(known)} |->
                     vals[MaxOf({k \in 1..Len(known) : known[k][2] = m})]]]))

\* the reader without the "/CI/" test of line 56
parse_bench_line_any_path(line) ==
    With(SplitWhitespace(Strip(line)), LAMBDA parts :
        IF \/ Len(parts) < 3
           \/ ~StartsWith(parts[1], Str_Benchmark)
        THEN [name |-> None, metrics |-> None]
        ELSE With2(format_benchmark_name(parts[1]), BenchMetrics(KnownPairs(parts)),
                   LAMBDA bench_name, ms :
                 IF IsRaise(ms) THEN ms ELSE [name |-> bench_name, metrics |-> ms.metrics]))

parse_bench_line(line) ==
    With(SplitWhitespace(Strip(line)), LAMBDA parts :
        IF \/ Len(parts) < 3
           \/ ~StartsWith(parts[1], Str_Benchmark)
           \/ ~Contains(parts[1], Str_CI)
        THEN [name |-> None, metrics |-> None]
        ELSE With2(format_benchmark_name(parts[1]), BenchMetrics(KnownPairs(parts)),
                   LAMBDA bench_name, ms :
                 IF IsRaise(ms) THEN ms ELSE [name |-> bench_name, metrics |-> ms.metrics]))

(***************************************************************************)
(* parse_metrics_file: the body of its loop for one line                   *)
(***************************************************************************)
\* the loop body with results[name_test][metric_name] = [value] in place of
\* the append of line 89
parse_metrics_line_overwrite(res, line) ==
    With(parse_bench_line(line), LAMBDA r :
        IF IsRaise(r) THEN r
        ELSE IF r.name = None THEN res
        ELSE IF DOMAIN r.metrics = {} THEN res
        ELSE With(IF HasKey(res, r.name) THEN res.val[r.name]
                  ELSE [m \in DOMAIN metrics |-> <<>>], LAMBDA had :
                 DictSet(res, r.name,
                     [m \in DOMAIN had |->
                         IF m \in DOMAIN r.metrics THEN <<r.metrics[m]>> ELSE had[m]])))

\* results after the line, or the exception parse_bench_line raised
parse_metrics_line(res, line) ==
    With(parse_bench_line(line), LAMBDA r :
        IF IsRaise(r) THEN r
        ELSE IF r.name = None THEN res
        ELSE IF DOMAIN r.metrics = {} THEN res
        ELSE With(IF HasKey(res, r.name) THEN res.val[r.name]
                  ELSE [m \in DOMAIN metrics |-> <<>>], LAMBDA had :
                 DictSet(res, r.name,
                     [m \in DOMAIN had |->
                         IF m \in DOMAIN r.metrics
                         THEN Append(had[m], r.metrics[m]) ELSE had[m]])))

(***************************************************************************)
(* aggregate_results                                                       *)
(***************************************************************************)
RECURSIVE FExactSumFrom(_, _)
FExactSumFrom(values, i) ==
    IF i > Len(values) THEN FZero
    ELSE FExactAdd(values[i], FExactSumFrom(values, i + 1))

\* statistics.mean: the exact sum over the count, rounded once
mean(values0) ==
    With(values0, LAMBDA values :
        IF values = <<>> THEN Raise("StatisticsError", "mean")
        ELSE With(FExactSumFrom(values, 1), LAMBDA s :
                 FDiv(s, FFromNat(Len(values)))))

\* statistics.median: the middle of the sorted data, or the mean of the two
\* middle values
median(values0) ==
    With(values0, LAMBDA values :
        With2(SortSeq(values, LAMBDA x, y : FCmp(x, y) < 0), Len(values), LAMBDA data, n :
            IF n = 0 THEN Raise("StatisticsError", "median")
            ELSE IF n % 2 = 1 THEN data[(n \div 2) + 1]
            ELSE FDiv(FAdd(data[n \div 2], data[(n \div 2) + 1]), FFromNat(2))))

Reduce(method, values) == IF method = "median" THEN median(values) ELSE mean(values)

\* the aggregated dict, or the StatisticsError the reducer raised
aggregate_results(parsed_metrics, method) ==
    With([b \in DOMAIN parsed_metrics.val |->
             [m \in DOMAIN parsed_metrics.val[b] |->
                 Reduce(method, parsed_metrics.val[b][m])]], LAMBDA aggregated :
        IF \E b \in DOMAIN aggregated : \E m \in DOMAIN aggregated[b] :
               IsRaise(aggregated[b][m])
        THEN Raise("StatisticsError", method)
        ELSE [keys |-> parsed_metrics.keys, val |-> aggregated])

(***************************************************************************)
(* humanize_number, format_metric_changes                                  *)
(***************************************************************************)
\* "?" or a number with two decimals and a suffix
humanize_number(val, scale) ==
    IF val = None THEN [text |-> "?"]
    ELSE With(FMul(val, scale), LAMBDA v :
             IF FCmp(FAbs(v), FFromNat(10 ^ 6)) >= 0
             THEN [num |-> FHundredths(FDiv(v, FFromNat(10 ^ 6))), suffix |-> "M"]
             ELSE IF FCmp(FAbs(v), FFromNat(10 ^ 3)) >= 0
             THEN [num |-> FHundredths(FDiv(v, FFromNat(10 ^ 3))), suffix |-> "K"]
             ELSE [num |-> FHundredths(v), suffix |-> ""])

\* change_pct = (new_val / old_val - 1) * 100
ChangePct(old_val, new_val) ==
    FMul(FSub(FDiv(new_val, old_val), FFromNat(1)), FFromNat(100))

\* is_better
IsBetter(metric_name, change_pct) ==
    /\ Get(metrics[metric_name], "good_direction", None) = "up"
    /\ FCmp(change_pct, FZero) > 0

\* the cell "<old> -> <new><suffix>": pct is the "(+x.xx%)" of the suffix or
\* None, emoji its mark or ""
format_metric_changes(metric_name, old_val0, new_val0, threshold) ==
    With2(old_val0, new_val0, LAMBDA old_val, new_val :
        With(Get(metrics[metric_name], "scale", FFromNat(1)), LAMBDA scale :
            With2(humanize_number(old_val, scale), humanize_number(new_val, scale),
                  LAMBDA old_val_str, new_val_str :
                IF old_val = None \/ new_val = None
                THEN [old |-> old_val_str, new |-> new_val_str,
                      pct |-> None, emoji |-> "warning"]
                ELSE IF FIsZero(old_val) THEN Raise("ZeroDivisionError", metric_name)
                ELSE With(ChangePct(old_val, new_val), LAMBDA change_pct :
                         [old   |-> old_val_str,
                          new   |-> new_val_str,
                          pct   |-> FHundredths(change_pct),
                          emoji |-> IF FCmp(FAbs(change_pct), threshold) >= 0
                                    THEN (IF IsBetter(metric_name, change_pct)
                                          THEN EMOJIS.good ELSE EMOJIS.bad)
                                    ELSE ""]))))

(***************************************************************************)
(* compare_benchmarks_df                                                   *)
(***************************************************************************)
OrEmpty(d) == IF d = None THEN EmptyDict ELSE d

\* all_metrics.keys(): the old keys, then the new ones not among them
AllKeys(old, new) ==
    old.keys \o SelectSeq(new.keys, LAMBDA k : ~HasKey(old, k))

\* the lookup with 0 in place of None as the default of lines 160-161
Lookup_default_zero(d, bench_name, metric_name) ==
    IF HasKey(d, bench_name) THEN Get(d.val[bench_name], metric_name, FZero) ELSE FZero

\* old_metrics.get(bench_name, {}).get(metric_name, None)
Lookup(d, bench_name, metric_name) ==
    IF HasKey(d, bench_name) THEN Get(d.val[bench_name], metric_name, None) ELSE None

ColumnName(metric_name) == Get(metrics[metric_name], "name", metric_name)

\* the row of a benchmark: its cell for every metric of METRICS, by metric
BenchRow(old, new, bench_name, threshold) ==
    [m \in DOMAIN metrics |->
        format_metric_changes(m, Lookup(old, bench_name, m), Lookup(new, bench_name, m),
                              threshold)]

\* the rows of the table, or the exception a cell raised
compare_benchmarks_df(old_arg, new_arg, threshold) ==
    With2(OrEmpty(old_arg), OrEmpty(new_arg), LAMBDA old, new :
        With(AllKeys(old, new), LAMBDA keys :
            With(<<[i \in 1..Len(keys) |-> BenchRow(old, new, keys[i], threshold)]>>,
                 LAMBDA t :
                With({i \in 1..Len(keys) : \E m \in DOMAIN metrics : IsRaise(t[1][i][m])},
                     LAMBDA failed :
                    IF failed # {}
                    THEN With(t[1][MinOf(failed)], LAMBDA row :
                             row[CHOOSE m \in DOMAIN metrics : IsRaise(row[m])])
                    ELSE [rows |-> [i \in 1..Len(keys) |->
                             [Benchmark |-> keys[i],
                              cells     |-> [c \in {ColumnName(m) : m \in DOMAIN metrics} |->
                                  t[1][i][CHOOSE m \in DOMAIN metrics :
                                              ColumnName(m) = c]]]]]))))

(***************************************************************************)
(* The inputs: the lines a results file may hold, the thresholds.          *)
(***************************************************************************)
MaxOldLines == 1

MaxNewLines == 2

Line(tokens) == Join(tokens, <<" ">>) \o <<"\n">>

Id_A == Str_Benchmark \o <<"A">> \o Str_CI \o <<"c", "-", "4">>

Id_A_x == Id_A \o <<"-", "x">>

Id_B == Str_Benchmark \o <<"B">> \o Str_CI \o <<"c", "-", "4">>

Id_A_no_CI == Str_Benchmark \o <<"A", "/", "c", "-", "4">>

Id_no_prefix == <<"A">> \o Str_CI \o <<"c", "-", "4">>

V_0 == <<"0">>

V_5 == <<"5">>

V_90 == <<"9", "0">>

V_100 == <<"1", "0", "0">>

V_110 == <<"1", "1", "0">>

V_x == <<"x">>

Count == <<"1">>

FileLines ==
    { Line(<<Id_A, Count, V_100, Str_MB_s, V_100, Str_values_s>>),
      Line(<<Id_A, Count, V_110, Str_MB_s, V_90, Str_values_s>>),
      Line(<<Id_A_x, Count, V_90, Str_MB_s, V_0, Str_values_s>>),
      Line(<<Id_B, Count, V_100, Str_MB_s>>),
      Line(<<Id_B, Count, V_x, Str_ns_op, V_100, Str_MB_s, V_5, Str_values_s>>),
      Line(<<Id_A, Count, V_x, Str_MB_s, V_100, Str_values_s>>),
      Line(<<Id_B, Count, V_5, Str_ns_op>>),
      Line(<<<<"P", "A", "S", "S">>>>),
      Line(<<Id_A_no_CI, Count, V_x, Str_MB_s>>),
      Line(<<Id_no_prefix, Count, V_x, Str_MB_s>>) }

Thresholds == {0, 7, 10}

(***************************************************************************)
(* main: old file (when there is one), new file, the report.               *)
(***************************************************************************)
Init ==
    /\ metrics = METRICS
    /\ aggregation \in {"mean", "median"}
    /\ alert_threshold = None
    /\ old_exists \in BOOLEAN
    /\ old_file = <<>>
    /\ new_file = <<>>
    /\ results = EmptyDict
    /\ old_metrics = None
    /\ new_metrics = None
    /\ report = None
    /\ pc = "parse_old"
    /\ exc = None
    /\ call = None
    /\ ret = None

\* old_metrics = None is kept when there is no old file
NoOldFile ==
    /\ pc = "parse_old"
    /\ ~old_exists
    /\ pc' = "parse_new"
    /\ UNCHANGED <<metrics, aggregation, alert_threshold, old_exists, old_file,
                   new_file, results, old_metrics, new_metrics, report, exc, call, ret>>

\* parse_metrics_file takes the next line of the file it reads
ReadLine(line) ==
    /\ \/ pc = "parse_old" /\ old_exists /\ Len(old_file) < MaxOldLines
       \/ pc = "parse_new" /\ Len(new_file) < MaxNewLines
    /\ old_file' = IF pc = "parse_old" THEN Append(old_file, line) ELSE old_file
    /\ new_file' = IF pc = "parse_new" THEN Append(new_file, line) ELSE new_file
    /\ \E r \in {parse_metrics_line(results, line)} :
           IF IsRaise(r)
           THEN /\ exc' = r
                /\ pc' = "raised"
                /\ results' = None
           ELSE /\ results' = r
                /\ UNCHANGED <<pc, exc>>
    /\ UNCHANGED <<metrics, aggregation, alert_threshold, old_exists, old_metrics,
                   new_metrics, report, call, ret>>

\* the file ends: parse_metrics_file returns and aggregate_results reduces
Aggregate ==
    /\ \/ pc = "parse_old" /\ old_exists
       \/ pc = "parse_new"
    /\ \E r \in {aggregate_results(results, aggregation)} :
           IF IsRaise(r)
           THEN /\ exc' = r
                /\ pc' = "raised"
                /\ results' = None
                /\ UNCHANGED <<old_metrics, new_metrics>>
           ELSE /\ old_metrics' = IF pc = "parse_old" THEN r ELSE old_metrics
                /\ new_metrics' = IF pc = "parse_new" THEN r ELSE new_metrics
                /\ pc' = IF pc = "parse_old" THEN "parse_new" ELSE "compare"
                /\ results' = EmptyDict
                /\ exc' = exc
    /\ UNCHANGED <<metrics, aggregation, alert_threshold, old_exists, old_file,
                   new_file, report, call, ret>>

\* compare_benchmarks_df(old_metrics, new_metrics, alert_threshold=args.alert_threshold)
Compare(threshold) ==
    /\ pc = "compare"
    /\ alert_threshold' = FFromNat(threshold)
    /\ \E r \in {compare_benchmarks_df(old_metrics, new_metrics, FFromNat(threshold))} :
           IF IsRaise(r)
           THEN /\ exc' = r
                /\ pc' = "raised"
                /\ report' = report
           ELSE /\ report' = r
                /\ pc' = "done"
                /\ exc' = exc
    /\ UNCHANGED <<metrics, aggregation, old_exists, old_file, new_file, results,
                   old_metrics, new_metrics, call, ret>>

Next ==
    \/ NoOldFile
    \/ \E line \in FileLines : ReadLine(line)
    \/ Aggregate
    \/ \E threshold \in Thresholds : Compare(threshold)

Spec == Init /\ [][Next]_vars

(***************************************************************************)
(* parse_metrics_file called on its own, on a file of up to MaxNewLines    *)
(* lines.                                                                  *)
(***************************************************************************)
InitParse ==
    /\ metrics = METRICS
    /\ aggregation = None
    /\ alert_threshold = None
    /\ old_exists = FALSE
    /\ old_file = <<>>
    /\ new_file = <<>>
    /\ results = EmptyDict
    /\ old_metrics = None
    /\ new_metrics = None
    /\ report = None
    /\ pc = "parse_new"
    /\ exc = None
    /\ call = None
    /\ ret = None

NextParse == \E line \in FileLines : ReadLine(line)

SpecParse == InitParse /\ [][NextParse]_vars

(***************************************************************************)
(* format_benchmark_name called on its own, on identifiers built from      *)
(* their structure: an optional "Benchmark" prefix, up to MaxSegs leading  *)
(* segments (the first followed by "/CI/" or by "/"), and a last segment   *)
(* of up to MaxToks tokens joined by "-".                                  *)
(***************************************************************************)
MaxSegs == 2

MaxToks == 3

SegNames == {<<"A">>, <<"F", "o", "o">>}

TokNames == {<<"c">>, <<"4">>, <<>>}

SeqsUpTo(S, lo, hi) == UNION {[1..n -> S] : n \in lo..hi}

NameShapes ==
    {sh \in [prefix : BOOLEAN, ci : BOOLEAN,
             segs : SeqsUpTo(SegNames, 0, MaxSegs),
             toks : SeqsUpTo(TokNames, 1, MaxToks)] :
        sh.ci => sh.segs # <<>>}

RECURSIVE LeadingSegs(_, _)
LeadingSegs(sh, i) ==
    IF i > Len(sh.segs) THEN <<>>
    ELSE sh.segs[i] \o (IF i = 1 /\ sh.ci THEN Str_CI ELSE <<"/">>) \o LeadingSegs(sh, i + 1)

BuildRaw(sh) ==
    (IF sh.prefix THEN Str_Benchmark ELSE <<>>)
        \o LeadingSegs(sh, 1) \o Join(sh.toks, <<"-">>)

InitName ==
    /\ metrics = METRICS
    /\ aggregation = None
    /\ alert_threshold = None
    /\ old_exists = FALSE
    /\ old_file = <<>>
    /\ new_file = <<>>
    /\ results = None
    /\ old_metrics = None
    /\ new_metrics = None
    /\ report = None
    /\ pc = "format_benchmark_name"
    /\ exc = None
    /\ call = None
    /\ ret = None

FormatName(sh) ==
    /\ pc = "format_benchmark_name"
    /\ call' = [shape |-> sh, name |-> BuildRaw(sh)]
    /\ ret' = format_benchmark_name(BuildRaw(sh))
    /\ pc' = "returned"
    /\ UNCHANGED <<metrics, aggregation, alert_threshold, old_exists, old_file, new_file,
                   results, old_metrics, new_metrics, report, exc>>

NextName == \E sh \in NameShapes : FormatName(sh)

SpecName == InitName /\ [][NextName]_vars

(***************************************************************************)
(* format_metric_changes called on its own: every metric of the table,     *)
(* each side a value or None, every threshold.  The table is METRICS as    *)
(* shipped or with the 'ns/op' entry of line 14 restored, which is the     *)
(* only entry whose good_direction is 'down'.                              *)
(***************************************************************************)
CellValues == {FFromNat(0), FFromNat(90), FFromNat(93), FFromNat(100), FFromNat(110)}

InitFmt ==
    /\ metrics \in {METRICS, METRICS_with_ns_op}
    /\ aggregation = None
    /\ alert_threshold = None
    /\ old_exists = FALSE
    /\ old_file = <<>>
    /\ new_file = <<>>
    /\ results = None
    /\ old_metrics = None
    /\ new_metrics = None
    /\ report = None
    /\ pc = "format_metric_changes"
    /\ exc = None
    /\ call = None
    /\ ret = None

FormatCell(metric_name, old_val, new_val, threshold) ==
    /\ pc = "format_metric_changes"
    /\ call' = [metric_name |-> metric_name, old_val |-> old_val, new_val |-> new_val,
                alert_threshold |-> FFromNat(threshold)]
    /\ ret' = format_metric_changes(metric_name, old_val, new_val, FFromNat(threshold))
    /\ pc' = "returned"
    /\ UNCHANGED <<metrics, aggregation, alert_threshold, old_exists, old_file, new_file,
                   results, old_metrics, new_metrics, report, exc>>

NextFmt ==
    \E metric_name \in DOMAIN metrics, old_val \in CellValues \cup {None},
       new_val \in CellValues \cup {None}, threshold \in Thresholds :
        FormatCell(metric_name, old_val, new_val, threshold)

SpecFmt == InitFmt /\ [][NextFmt]_vars

(***************************************************************************)
(* compare_benchmarks_df called on its own: each side None or a dict of    *)
(* aggregated values, in which a benchmark may lack a metric or have the   *)
(* value 0.                                                                *)
(***************************************************************************)
Name_A == format_benchmark_name(Id_A)

Name_B == format_benchmark_name(Id_B)

CmpMaps ==
    { Str_MB_s :> FFromNat(100),
      Str_values_s :> FFromNat(100),
      Str_MB_s :> FFromNat(100) @@ Str_values_s :> FFromNat(100),
      Str_MB_s :> FFromNat(90) @@ Str_values_s :> FFromNat(100),
      Str_MB_s :> FFromNat(0) @@ Str_values_s :> FFromNat(100) }

CmpDicts ==
    {EmptyDict}
        \cup {[keys |-> <<Name_A>>, val |-> Name_A :> a] : a \in CmpMaps}
        \cup {[keys |-> <<Name_B, Name_A>>, val |-> Name_A :> a @@ Name_B :> b] :
                 a \in CmpMaps, b \in CmpMaps}

InitCmp ==
    /\ metrics = METRICS
    /\ aggregation = None
    /\ alert_threshold = None
    /\ old_exists \in BOOLEAN
    /\ old_file = <<>>
    /\ new_file = <<>>
    /\ results = None
    /\ old_metrics \in IF old_exists THEN CmpDicts ELSE {None}
    /\ new_metrics \in CmpDicts \cup {None}
    /\ report = None
    /\ pc = "compare"
    /\ exc = None
    /\ call = None
    /\ ret = None

NextCmp == \E threshold \in Thresholds : Compare(threshold)

SpecCmp == InitCmp /\ [][NextCmp]_vars

(***************************************************************************)
(* What the properties below read off a line and a call.                   *)
(***************************************************************************)
\* the whitespace-delimited tokens of a line
Tokens(line) == SplitWhitespace(Strip(line))

\* the line is a benchmark-result line
Qualifies(line) ==
    With(Tokens(line), LAMBDA parts :
        /\ Len(parts) >= 3
        /\ StartsWith(parts[1], Str_Benchmark)
        /\ Contains(parts[1], Str_CI))

\* some value token of the line, in any (value, metric) pair, is no number
HasBadValue(line) ==
    With(Tokens(line), LAMBDA parts :
        \E k \in 1..((Len(parts) - 2) \div 2) : IsRaise(float(parts[2 * k + 1])))

\* per line of a file: its place, raw identifier, display name, whether it
\* qualifies, and the tracked metrics it carries
LineFacts(file) ==
    {With(Tokens(file[i]), LAMBDA parts :
         [i       |-> i,
          raw     |-> parts[1],
          name    |-> format_benchmark_name(parts[1]),
          counts  |-> /\ Len(parts) >= 3
                      /\ StartsWith(parts[1], Str_Benchmark)
                      /\ Contains(parts[1], Str_CI)
                      /\ \E k \in 1..((Len(parts) - 2) \div 2) :
                             parts[2 * k + 2] \in DOMAIN metrics,
          tracked |-> {parts[2 * k + 2] : k \in 1..((Len(parts) - 2) \div 2)}
                          \cap DOMAIN metrics]) : i \in 1..Len(file)}

\* the lines that contribute observations
Contributing(file) == {f \in LineFacts(file) : f.counts}

\* the file parse_metrics_file is reading
CurrentFile == IF pc = "parse_old" THEN old_file ELSE new_file

\* the natural number an integer-valued float stands for
NatOf(x) == BToNat(BShl(x.m, x.e))

\* the metric has a value for the benchmark on this side
Present(d, b, m) == d # None /\ HasKey(d, b) /\ m \in DOMAIN d.val[b]

(***************************************************************************)
(* C1: an empty observation list never reaches the mean/median reducer:    *)
(* every metric entry that exists under a benchmark in the results of      *)
(* parse_metrics_file has at least one observation, and aggregate_results  *)
(* never fails with a StatisticsError.                                     *)
(***************************************************************************)
C1_NoEmptyObservationList ==
    /\ results # None =>
           \A b \in DOMAIN results.val : \A m \in DOMAIN results.val[b] :
               results.val[b][m] # <<>>
    /\ ~(pc = "raised" /\ exc.exc = "StatisticsError")

C3_EmojiIffAtOrPastThreshold ==
    (/\ pc = "returned"
     /\ call.old_val # None
     /\ call.new_val # None
     /\ ~IsRaise(ret))
    => LET old  == NatOf(call.old_val)
           new  == NatOf(call.new_val)
           diff == IF new >= old THEN new - old ELSE old - new
       IN  /\ ret.pct # None
           /\ ret.emoji \in {EMOJIS.good, EMOJIS.bad}
                  <=> diff * 100 >= NatOf(call.alert_threshold) * old

(***************************************************************************)
(* C4: comparing an aggregated result set with itself under a positive     *)
(* alert_threshold produces the report, and every cell of it shows a       *)
(* change of 0.00% and no emoji, whatever the aggregated values are.       *)
(***************************************************************************)
C4_SelfComparisonIsZeroChange ==
    (/\ pc \in {"done", "raised"}
     /\ alert_threshold # None
     /\ alert_threshold # FZero
     /\ old_metrics # None
     /\ old_metrics = new_metrics)
    => /\ pc = "done"
       /\ \A i \in DOMAIN report.rows : \A c \in DOMAIN report.rows[i].cells :
              /\ report.rows[i].cells[c].pct = [neg |-> FALSE, h |-> 0]
              /\ report.rows[i].cells[c].emoji = ""

(***************************************************************************)
(* C5: once a qualifying line with a value token that is no number has     *)
(* been read, in whatever pair position and whether or not the metric of   *)
(* the pair is known, the run has failed with a ValueError and the file    *)
(* has no results.                                                         *)
(***************************************************************************)
C5_BadValueIsAlwaysFatal ==
    \A i \in 1..Len(old_file \o new_file) :
        (Qualifies((old_file \o new_file)[i]) /\ HasBadValue((old_file \o new_file)[i]))
        => (pc = "raised" /\ exc.exc = "ValueError" /\ results = None)

(***************************************************************************)
(* C6: a run whose files hold no unparsable value ends with a report that  *)
(* has exactly one row for each benchmark with at least one tracked-metric *)
(* observation in the old or the new file, and no other row.               *)
(***************************************************************************)
C6_OneRowPerObservedBenchmark ==
    (/\ pc \in {"done", "raised"}
     /\ ~(pc = "raised" /\ exc.exc = "ValueError"))
    => /\ pc = "done"
       /\ {report.rows[i].Benchmark : i \in DOMAIN report.rows}
              = {f.name : f \in Contributing(old_file \o new_file)}
       /\ \A i, j \in DOMAIN report.rows :
              report.rows[i].Benchmark = report.rows[j].Benchmark => i = j

(***************************************************************************)
(* C7: in a report, a cell whose metric has a value on one side only       *)
(* shows "?" for the missing side, no percentage and the warning marker    *)
(* (never the good or bad emoji), for every threshold; and the comparison  *)
(* fails only on a cell with both values present, the old one being 0.     *)
(***************************************************************************)
C7_OneSidedCellIsWarning ==
    /\ pc = "done" =>
           \A i \in DOMAIN report.rows : \A m \in DOMAIN metrics :
               LET b    == report.rows[i].Benchmark
                   cell == report.rows[i].cells[ColumnName(m)]
               IN  Present(old_metrics, b, m) # Present(new_metrics, b, m)
                   => /\ cell.pct = None
                      /\ cell.emoji = "warning"
                      /\ ~Present(old_metrics, b, m) => cell.old = [text |-> "?"]
                      /\ ~Present(new_metrics, b, m) => cell.new = [text |-> "?"]
    /\ pc = "raised" =>
           \E b \in {Name_A, Name_B}, m \in DOMAIN metrics :
               /\ Present(old_metrics, b, m)
               /\ Present(new_metrics, b, m)
               /\ FIsZero(old_metrics.val[b][m])

C7_Witness ==
    /\ pc = "done"
    /\ Present(old_metrics, Name_A, Str_values_s)
    /\ ~Present(new_metrics, Name_A, Str_values_s)
    /\ Present(new_metrics, Name_A, Str_MB_s)
    /\ \E i \in DOMAIN report.rows :
           /\ report.rows[i].Benchmark = Name_A
           /\ report.rows[i].cells[Str_values_s].emoji = "warning"
           /\ report.rows[i].cells[Str_values_s].new = [text |-> "?"]

(***************************************************************************)
(* C8: reading a line that does not qualify (fewer than 3 tokens, or a     *)
(* first token that does not start with "Benchmark" or does not contain    *)
(* "/CI/") gives no result from parse_bench_line, raises nothing whatever  *)
(* its other tokens are, and leaves the accumulated results unchanged.     *)
(***************************************************************************)
C8_NonQualifyingLineIsIgnored ==
    [][\A line \in FileLines :
           (/\ \/ old_file' = Append(old_file, line)
               \/ new_file' = Append(new_file, line)
            /\ ~Qualifies(line))
           => /\ parse_bench_line(line) = [name |-> None, metrics |-> None]
              /\ results' = results
              /\ pc' = pc
              /\ exc' = None]_vars

C8_Witness ==
    /\ pc = "parse_new"
    /\ Len(new_file) = 2
    /\ new_file[2] = Line(<<Id_A_no_CI, Count, V_x, Str_MB_s>>)
    /\ results.keys = <<Name_A>>
    /\ exc = None

C10_AccumulatesPerRawIdentifier ==
    pc \in {"parse_old", "parse_new"} =>
        With(Contributing(CurrentFile), LAMBDA lines :
            \A b \in DOMAIN results.val :
                \E raw \in {f.raw : f \in lines} :
                    \A m \in DOMAIN metrics :
                        Len(results.val[b][m])
                            = Cardinality({f \in lines : f.raw = raw /\ m \in f.tracked}))

(***************************************************************************)
(* C10 as the code has it: the results are keyed by the display name that  *)
(* format_benchmark_name gives the raw identifier.  While a file is read,  *)
(* the entries are the display names of the contributing lines, and the    *)
(* observations of a metric under an entry are those of the lines with     *)
(* that display name that carry the metric: two lines add to the same list *)
(* exactly when their display names are equal.                             *)
(***************************************************************************)
C10_AccumulatesPerDisplayName ==
    pc \in {"parse_old", "parse_new"} =>
        With(Contributing(CurrentFile), LAMBDA lines :
            /\ DOMAIN results.val = {f.name : f \in lines}
            /\ \A b \in DOMAIN results.val : \A m \in DOMAIN metrics :
                   Len(results.val[b][m])
                       = Cardinality({f \in lines : f.name = b /\ m \in f.tracked}))

C10_Witness ==
    /\ pc = "parse_new"
    /\ new_file = << Line(<<Id_A, Count, V_100, Str_MB_s, V_100, Str_values_s>>),
                     Line(<<Id_A_x, Count, V_90, Str_MB_s, V_0, Str_values_s>>) >>
    /\ results.keys = <<Name_A>>
    /\ Len(results.val[Name_A][Str_MB_s]) = 2
====
